---- MODULE Spec2Model ----
(***************************************************************************)
(* Model of the autoforward forwarding engine (src/src/forwarding.rs and   *)
(* the request handler and maintenance loop of src/src/main.rs).           *)
(*                                                                         *)
(* Strings are sequences of one-character strings, so that URI parsing,    *)
(* prefix tests and byte lengths are computed and not assumed.             *)
(***************************************************************************)
EXTENDS Integers, Sequences, FiniteSets, TLC

VARIABLES
    hosts,              \* State.hosts: the descriptors, fixed at startup
    port_forwards,      \* State.port_forwards: the pool, in vector order
    new_portforwards,   \* the local vector of State::tick while it runs
    next_update,        \* State.next_update
    guards,             \* the tasks that hold a MutexGuard of the State mutex
    pc,                 \* position of each task (request handlers, maintenance)
    req,                \* per handler: the request being served
    res,                \* per handler: what fetch_address returned to it
    clock,              \* SystemTime::now(), in seconds
    child,              \* every kubectl port-forward subprocess spawned so far,
                        \* with the history of its tunnel (desc: the descriptor
                        \* it was opened from)
    served,             \* history: one watched fetch_address call that returned a Portforward
    tickLog,            \* history: what the running tick saw of each tunnel
    fnIn,               \* input of the pure-function specification
    fnOut,              \* its output
    disc,               \* startup: outcome of each discovery call
    discOrder,          \* startup: indexes of the calls in completion order
    boot,               \* startup: position of main()
    hosts_file,         \* the bytes of the hosts file
    updates,            \* history: the outcome of each update_hosts_file so far
    closing             \* one call of PortforwardDescriptor::close, step by step

vars == <<hosts, port_forwards, new_portforwards, next_update, guards, pc, req,
          res, clock, child, served, tickLog, fnIn, fnOut, disc, discOrder, boot,
          hosts_file, updates, closing>>

\* an absent Option<String>; no string of characters equals it
None == <<"none">>

-----------------------------------------------------------------------------
(* Bounds of the model *)

\* subprocesses ever spawned in one behaviour
MaxSpawn == 3
\* the clock stops advancing here
MaxClock == 61
\* ingresses per descriptor and descriptors, in the pure-function specification
MaxIngresses == 3
MaxDescriptors == 2

-----------------------------------------------------------------------------
(* Strings *)

S_http  == <<"h","t","t","p",":","/","/">>
S_https == <<"h","t","t","p","s",":","/","/">>

\* the ingress strings the model draws from
I_root   == S_http \o <<"h","/">>               \* http://h/
I_a      == S_http \o <<"h","/","a">>           \* http://h/a
I_ab     == S_http \o <<"h","/","a","b">>       \* http://h/ab
I_bare   == S_http \o <<"h">>                   \* http://h
I_tls    == S_https \o <<"h",":","8","/">>      \* https://h:8/
I_other  == S_http \o <<"g","/">>               \* http://g/
I_bad    == <<"h"," ","x">>                     \* not a URI
I_nosch  == <<"h","/","a">>                     \* h/a : no scheme, not a URI
I_auth   == <<"h">>                             \* h : authority form

IngressPool == {I_root, I_a, I_ab, I_bare, I_tls, I_other, I_bad, I_nosch, I_auth}

P_root == <<"/">>
P_a    == <<"/","a">>
P_ab   == <<"/","a","b">>
P_b    == <<"/","b">>

H_h == <<"h">>
H_g == <<"g">>
H_x == <<"x">>

\* str::starts_with
StartsWith(s, p) ==
    /\ Len(p) <= Len(s)
    /\ \A i \in 1..Len(p) : s[i] = p[i]

\* index of the first occurrence of character c in s at or after from, 0 if none
FindChar(s, c, from) ==
    IF \E i \in from..Len(s) : s[i] = c
    THEN CHOOSE i \in from..Len(s) : s[i] = c /\ \A j \in from..(i-1) : s[j] # c
    ELSE 0

-----------------------------------------------------------------------------
(* hyper::Uri as best_ingress uses it: from_str, host(), path() *)

UriErr == [ok |-> FALSE, host |-> None, path |-> <<>>]

\* the authority's host: what precedes the port separator
AuthorityHost(a) ==
    LET c == FindChar(a, ":", 1)
    IN  IF c = 0 THEN a ELSE SubSeq(a, 1, c - 1)

\* index of the ':' of a "://" in s, 0 if none
SchemeEnd(s) ==
    LET c == FindChar(s, ":", 1)
    IN  IF c > 1 /\ c + 2 <= Len(s) /\ s[c+1] = "/" /\ s[c+2] = "/"
        THEN c ELSE 0

UriFromStr(s) ==
    IF s = <<>> \/ \E i \in 1..Len(s) : s[i] = " "
    THEN UriErr
    ELSE IF s[1] = "/"
    THEN [ok |-> TRUE, host |-> None, path |-> s]            \* origin form
    ELSE LET se == SchemeEnd(s) IN
         IF se = 0
         THEN \* no scheme: only a bare authority parses
              IF FindChar(s, "/", 1) # 0 THEN UriErr
              ELSE [ok |-> TRUE, host |-> AuthorityHost(s), path |-> <<>>]
         ELSE LET rest  == SubSeq(s, se + 3, Len(s))
                  slash == FindChar(rest, "/", 1)
                  auth  == IF slash = 0 THEN rest ELSE SubSeq(rest, 1, slash - 1)
                  path  == IF slash = 0 THEN <<>> ELSE SubSeq(rest, slash, Len(rest))
              IN  IF auth = <<>> THEN UriErr
                  ELSE [ok   |-> TRUE,
                        host |-> AuthorityHost(auth),
                        \* an absolute URI with no path has path "/"
                        path |-> IF path = <<>> THEN <<"/">> ELSE path]

-----------------------------------------------------------------------------
(* Iterator::max_by *)

\* Iterator::max_by on the byte length, over candidates [i, len] in iteration
\* order: the index i of the LAST candidate of greatest len; 0 if there is none
LastLongest(cands) ==
    IF cands = <<>> THEN 0
    ELSE LET k == CHOOSE k \in 1..Len(cands) :
                    /\ \A j \in 1..Len(cands) : cands[j].len <= cands[k].len
                    /\ \A j \in (k+1)..Len(cands) : cands[j].len < cands[k].len
         IN  cands[k].i

\* min_by in the place of max_by
LastShortest(cands) ==
    IF cands = <<>> THEN 0
    ELSE LET k == CHOOSE k \in 1..Len(cands) :
                    /\ \A j \in 1..Len(cands) : cands[j].len >= cands[k].len
                    /\ \A j \in (k+1)..Len(cands) : cands[j].len > cands[k].len
         IN  cands[k].i

-----------------------------------------------------------------------------
(* ApplicationDescriptor::best_ingress *)

\* the filters of best_ingress: parses, same host, URI path a prefix of path
IngressMatches(ingress, host, path) ==
    LET uri == UriFromStr(ingress)
    IN  /\ uri.ok
        /\ uri.host = host
        /\ StartsWith(path, uri.path)

RECURSIVE MatchingIngresses(_, _, _, _)
\* the ingresses from the i-th on that pass the filters, in order
MatchingIngresses(ing, host, path, i) ==
    IF i > Len(ing) THEN <<>>
    ELSE (IF IngressMatches(ing[i], host, path)
          THEN << [i |-> i, len |-> Len(ing[i])] >> ELSE <<>>)
         \o MatchingIngresses(ing, host, path, i + 1)

\* index in desc.ingresses of the ingress best_ingress returns, 0 for None
BestIngressIdx(desc, host, path) ==
    LastLongest(MatchingIngresses(desc.ingresses, host, path, 1))

best_ingress(desc, host, path) ==
    LET i == BestIngressIdx(desc, host, path)
    IN  IF i = 0 THEN None ELSE desc.ingresses[i]

RECURSIVE BestOfEach(_, _, _, _)
\* filter_map of fetch_address: the descriptors from the d-th on that have a
\* best ingress, each with the byte length of that ingress
BestOfEach(descs, host, path, d) ==
    IF d > Len(descs) THEN <<>>
    ELSE (IF BestIngressIdx(descs[d], host, path) # 0
          THEN << [i |-> d, len |-> Len(best_ingress(descs[d], host, path))] >>
          ELSE <<>>)
         \o BestOfEach(descs, host, path, d + 1)

\* a plausible slip: the shortest best ingress wins
ResolveIdxShortest(descs, host, path) ==
    LastShortest(BestOfEach(descs, host, path, 1))

\* the (ingress, descriptor) pair fetch_address resolves: the index in descs of
\* the descriptor whose best ingress is longest (the last such), 0 for None
ResolveIdx(descs, host, path) ==
    LastLongest(BestOfEach(descs, host, path, 1))

-----------------------------------------------------------------------------
(* Program constants *)

\* Duration::from_secs(60) of create_ttl
TtlSecs == 60
\* Duration::from_secs(120) of State::next_update
UpdateSecs == 120

\* the amounts by which the clock advances between steps
Deltas == {TtlSecs - 1, TtlSecs, TtlSecs + 1}

-----------------------------------------------------------------------------
(* Descriptors and requests of the pool specification *)

L_alive == <<"/","l">>
\* a liveness path with which the probe URI does not parse
L_bad == <<"/"," ","l">>
\* the liveness paths descriptors declare
LivenessPaths == {L_alive, L_bad}

Descriptor(name, ingresses, liveness, context, namespace) ==
    [application_name |-> name, ingresses |-> ingresses, liveness |-> liveness,
     context |-> context, namespace |-> namespace]

\* one application with one ingress and a liveness path
HostsSingle == << Descriptor("svc", <<I_root>>, L_alive, "dev-fss", "default") >>

\* one application that declares no liveness path
HostsNoProbe == << Descriptor("quiet", <<I_root>>, None, "prod-fss", "default") >>

\* two applications that both declare http://h/
HostsShared ==
    << Descriptor("a", <<I_a, I_root>>, L_alive, "dev-fss", "default"),
       Descriptor("b", <<I_root>>, L_alive, "dev-fss", "tbd") >>

HostConfigs == {HostsSingle, HostsNoProbe, HostsShared}

\* the connections being served (one handle_req at a time each) and the
\* maintenance task
Handlers == DOMAIN req
Maint == "maint"
Tasks == DOMAIN pc

\* Host header values (None: no header) and request paths
H_hport == <<"h",":","4","4","3">>
HostHeaders == {None, H_h, H_hport, H_x}
Paths == {P_root, P_a}

Ports == {8001, 8002}
Loopback == "127.0.0.1"

NoReq == [host |-> None, path |-> <<>>]
NoPf == [host |-> "", port |-> 0]
NoRes == [kind |-> "unset", pf |-> NoPf, id |-> 0, opened |-> FALSE,
          status |-> "unset", reached |-> 0]
NoServed == [host |-> None, path |-> <<>>, pf |-> NoPf, id |-> 0, deadline |-> 0,
             dead |-> FALSE]
NoLog == [pre |-> {}, ok |-> {}, fresh |-> {}]

-----------------------------------------------------------------------------
(* PortforwardDescriptor *)

\* a plausible slip: the deadline of next_update is used for the tunnel
create_ttlLong(now) == now + UpdateSecs

create_ttl(now) == now + TtlSecs

\* Vec::contains on the snapshot of the descriptor's ingresses
contains_ingress(pf, ingress) == \E i \in 1..Len(pf.hosts) : pf.hosts[i] = ingress

\* a plausible slip: the snapshot holds the first ingress only
from_appFirstIngress(app, id, port, now) ==
    [id          |-> id,
     hosts       |-> SubSeq(app.ingresses, 1, 1),
     ttl         |-> create_ttl(now),
     liveness    |-> app.liveness,
     portforward |-> [host |-> Loopback, port |-> port]]

\* the tunnel from_app builds for descriptor app around child number id
from_app(app, id, port, now) ==
    [id          |-> id,
     hosts       |-> app.ingresses,
     ttl         |-> create_ttl(now),
     liveness    |-> app.liveness,
     portforward |-> [host |-> Loopback, port |-> port]]

\* the URI check_selftest formats for the probe: http://<host>:<port>/<path>,
\* the path without its leading '/'
ProbeUri(liveness) ==
    S_http \o <<"1","2","7",".","0",".","0",".","1",":","8","0","0","1","/">>
        \o (IF StartsWith(liveness, <<"/">>)
            THEN SubSeq(liveness, 2, Len(liveness)) ELSE liveness)

\* the liveness paths with which the probe URI does not parse
BadProbePaths == {l \in LivenessPaths : ~UriFromStr(ProbeUri(l)).ok}

\* uri.unwrap() of check_selftest panics: the probe URI does not parse
ProbePanics(pf) == pf.liveness \in BadProbePaths

\* check_selftest: false without a liveness path, else whether the GET was 2xx
check_selftest(pf, probe2xx) == pf.liveness # None /\ probe2xx

\* a plausible slip: the probe's result is not consulted
pf_tickNoProbe(pf, probe2xx, now) == pf.ttl > now

\* PortforwardDescriptor::tick: keep the tunnel?
pf_tick(pf, probe2xx, now) ==
    IF ~check_selftest(pf, probe2xx) THEN FALSE ELSE pf.ttl > now

PoolIds(pool) == {pool[i].id : i \in 1..Len(pool)}

\* ports on which a running subprocess listens
PortsInUse == {child[i].port : i \in {j \in 1..Len(child) : child[j].state = "running"}}

\* a plausible slip: the evicted tunnel is dropped, close is never called
closeNever(children, id) == children

\* PortforwardDescriptor::close: the child is signalled and reaped
close(children, id) ==
    [children EXCEPT ![id] = [@ EXCEPT !.state = "reaped", !.port = 0,
                                       !.closes = @ + 1]]

-----------------------------------------------------------------------------
(* Initial states *)

PoolInit(H) ==
    /\ port_forwards = <<>>
    /\ new_portforwards = <<>>
    /\ clock = 0
    /\ next_update = UpdateSecs
    /\ guards = {}
    /\ pc = [t \in H \cup {Maint} |-> IF t = Maint THEN "sleep" ELSE "idle"]
    /\ req = [h \in H |-> NoReq]
    /\ res = [h \in H |-> NoRes]
    /\ child = <<>>
    /\ served = NoServed
    /\ tickLog = NoLog

NoFnOut == [done |-> FALSE, ingress |-> None, desc |-> 0]
FnIdle == fnIn = [op |-> "idle"] /\ fnOut = NoFnOut

BootDone == disc = <<>> /\ discOrder = <<>> /\ boot = "serving"

\* the hosts file is not part of the behaviour
FileIdle == hosts_file = <<>> /\ updates = <<>>

\* no close is looked at step by step
NoClosing == [phase |-> "none", elapsed |-> 0, exited |-> FALSE, drained |-> FALSE,
              events |-> <<>>]
CloseIdle == closing = NoClosing

Init ==
    /\ hosts \in HostConfigs
    /\ PoolInit({"r1"})
    /\ FnIdle
    /\ BootDone
    /\ FileIdle
    /\ CloseIdle

poolVars == <<port_forwards, new_portforwards, next_update, child>>
otherVars == <<fnIn, fnOut, disc, discOrder, boot, hosts_file, updates, closing>>

-----------------------------------------------------------------------------
(* handle_req *)

\* the Host value up to its first ':'
StripPort(h) ==
    LET c == FindChar(h, ":", 1)
    IN  IF c = 0 THEN h ELSE SubSeq(h, 1, c - 1)

\* Mutex::lock completes only while no guard exists
CanLockFree == TRUE
CanLock == guards = {}

\* the guard of `state.lock().await` is a temporary of the statement that
\* calls fetch_address (tick): it is dropped when that statement ends
DropGuardKeep(t) == guards
DropGuard(t) == guards \ {t}

\* requests that may still have to spawn a subprocess
Spawning == {h \in Handlers : pc[h] \in {"lock", "fetch"}}

\* a plausible slip: the reply of the no-service branch is used
RejectNoHostAs404(h) ==
    /\ pc' = [pc EXCEPT ![h] = "done"]
    /\ res' = [res EXCEPT ![h] = [NoRes EXCEPT !.status = "404"]]
    /\ req' = [req EXCEPT ![h] = NoReq]

\* no Host header: 400 Bad Request is returned at once
RejectNoHost(h) ==
    /\ pc' = [pc EXCEPT ![h] = "done"]
    /\ res' = [res EXCEPT ![h] = [NoRes EXCEPT !.status = "400"]]
    /\ req' = [req EXCEPT ![h] = NoReq]

\* a request arrives: read the Host header, reply 400 without one
Receive(h) ==
    /\ pc[h] = "idle"
    /\ Len(child) + Cardinality(Spawning) < MaxSpawn
    /\ \E header \in HostHeaders, path \in Paths :
        IF header = None
        THEN RejectNoHost(h)
        ELSE /\ pc' = [pc EXCEPT ![h] = "lock"]
             /\ req' = [req EXCEPT ![h] = [host |-> StripPort(header), path |-> path]]
             /\ res' = [res EXCEPT ![h] = NoRes]
    /\ UNCHANGED <<hosts, poolVars, guards, clock, served, tickLog, otherVars>>

\* state.lock().await
Acquire(h) ==
    /\ pc[h] = "lock"
    /\ CanLock
    /\ guards' = guards \cup {h}
    /\ pc' = [pc EXCEPT ![h] = "fetch"]
    /\ UNCHANGED <<hosts, poolVars, req, res, clock, served, tickLog, otherVars>>

-----------------------------------------------------------------------------
(* State::fetch_address *)

\* a plausible slip: the pool is never searched
FindTunnelNever(pool, ingress) == 0

\* index of the first pool tunnel whose snapshot contains ingress, 0 if none
FindTunnel(pool, ingress) ==
    IF \E k \in 1..Len(pool) : contains_ingress(pool[k], ingress)
    THEN CHOOSE k \in 1..Len(pool) :
            /\ contains_ingress(pool[k], ingress)
            /\ \A j \in 1..(k-1) : ~contains_ingress(pool[j], ingress)
    ELSE 0

\* the ingress fetch_address resolves for a request, None if no descriptor matches
ResolvedIngress(r) ==
    LET d == ResolveIdx(hosts, r.host, r.path)
    IN  IF d = 0 THEN None ELSE best_ingress(hosts[d], r.host, r.path)

\* the watch on one call that returned a Portforward: any such call may start
\* a watch when none is running, and the next call for the watched (host, path)
\* ends it or renews it
Watch(h, r) ==
    LET seen == [host |-> req[h].host, path |-> req[h].path, pf |-> r.pf,
                 id |-> r.id, deadline |-> create_ttl(clock), dead |-> FALSE]
    IN  IF served = NoServed
             \/ (served.host = req[h].host /\ served.path = req[h].path)
        THEN served' \in {NoServed, seen}
        ELSE served' = served

\* a tunnel of the pool serves the ingress: its ttl is renewed
ReuseTunnel(h, k) ==
    /\ port_forwards' = [port_forwards EXCEPT ![k].ttl = create_ttl(clock)]
    /\ child' = [child EXCEPT ![port_forwards[k].id].used = clock]
    /\ res' = [res EXCEPT ![h] = [NoRes EXCEPT !.kind = "pf",
                                               !.pf = port_forwards[k].portforward,
                                               !.id = port_forwards[k].id]]
    /\ pc' = [pc EXCEPT ![h] = "held"]
    /\ Watch(h, res'[h])

\* no tunnel serves the ingress: Portforward::from_app up to the await on
\* the first stdout line of the new subprocess
SpawnTunnel(h) ==
    \/ \* Command::spawn fails: unwrap panics
       /\ res' = [res EXCEPT ![h] = [NoRes EXCEPT !.kind = "panic"]]
       /\ pc' = [pc EXCEPT ![h] = "held"]
       /\ UNCHANGED <<port_forwards, child, served>>
    \/ \* the subprocess runs; its first line is awaited
       /\ child' = Append(child, [state |-> "running", port |-> 0,
                                  closes |-> 0, used |-> clock,
                                  evicted |-> FALSE, desc |-> 0])
       /\ res' = [res EXCEPT ![h] = [NoRes EXCEPT !.id = Len(child) + 1]]
       /\ pc' = [pc EXCEPT ![h] = "opening"]
       /\ UNCHANGED <<port_forwards, served>>

\* the pool is searched for the resolved ingress
LookupTunnel(h, k) == IF k # 0 THEN ReuseTunnel(h, k) ELSE SpawnTunnel(h)

\* a plausible slip: the early return on no match is missing
FetchResolvedNoReturn(h, ingress) ==
    LookupTunnel(h, FindTunnel(port_forwards, ingress))

\* fetch_address once the request is resolved to an ingress (or to none)
FetchResolved(h, ingress) ==
    IF ingress = None
    THEN /\ res' = [res EXCEPT ![h] = [NoRes EXCEPT !.kind = "notfound"]]
         /\ pc' = [pc EXCEPT ![h] = "held"]
         /\ UNCHANGED <<port_forwards, child, served>>
    ELSE LookupTunnel(h, FindTunnel(port_forwards, ingress))

\* up to the await on the first stdout line of a new subprocess
FetchAddress(h) ==
    /\ pc[h] = "fetch"
    /\ FetchResolved(h, ResolvedIngress(req[h]))
    /\ UNCHANGED <<hosts, new_portforwards, next_update, guards, req, clock,
                   tickLog, otherVars>>

\* from_app after the first line: the tunnel is built and pushed, or the
\* line is missing (read error: Err; end of stream or no match: unwrap panics)
OpenComplete(h) ==
    /\ pc[h] = "opening"
    /\ LET d == ResolveIdx(hosts, req[h].host, req[h].path)
           id == res[h].id
       IN  \/ \E port \in Ports \ PortsInUse :
                LET pf == from_app(hosts[d], id, port, clock)
                    r == [NoRes EXCEPT !.kind = "pf", !.pf = pf.portforward,
                                       !.id = id, !.opened = TRUE]
                IN  /\ child' = [child EXCEPT ![id].port = port, ![id].used = clock,
                                              ![id].desc = d]
                    /\ port_forwards' = Append(port_forwards, pf)
                    /\ res' = [res EXCEPT ![h] = r]
                    /\ Watch(h, r)
           \/ \E kind \in {"err", "panic"} :
                /\ res' = [res EXCEPT ![h] = [NoRes EXCEPT !.kind = kind, !.id = id]]
                /\ UNCHANGED <<port_forwards, child, served>>
    /\ pc' = [pc EXCEPT ![h] = "held"]
    /\ UNCHANGED <<hosts, new_portforwards, next_update, guards, req, clock,
                   tickLog, otherVars>>

\* the statement that called fetch_address ends: the guard is dropped, and
\* the handler goes on to dispatch, replies 404, or fails without a reply
Release(h) ==
    /\ pc[h] = "held"
    /\ guards' = DropGuard(h)
    /\ IF res[h].kind = "pf"
       THEN /\ pc' = [pc EXCEPT ![h] = "dispatch"]
            /\ res' = res
       ELSE /\ pc' = [pc EXCEPT ![h] = "done"]
            /\ res' = [res EXCEPT ![h].status =
                          IF res[h].kind = "notfound" THEN "404" ELSE "dropped"]
    /\ UNCHANGED <<hosts, poolVars, req, clock, served, tickLog, otherVars>>

\* the running subprocess that listens on a port, 0 if none
Listener(port) ==
    IF \E i \in 1..Len(child) : child[i].state = "running" /\ child[i].port = port
    THEN CHOOSE i \in 1..Len(child) : child[i].state = "running" /\ child[i].port = port
    ELSE 0

\* client.request(req) to http://host:port/path: the upstream's response, or 502
Dispatch(h) ==
    /\ pc[h] = "dispatch"
    /\ LET l == Listener(res[h].pf.port)
       IN  res' = [res EXCEPT ![h].reached = l,
                              ![h].status = IF l = 0 THEN "502" ELSE "upstream"]
    /\ pc' = [pc EXCEPT ![h] = "done"]
    /\ UNCHANGED <<hosts, poolVars, guards, req, clock, served, tickLog, otherVars>>

\* the response is written; the connection serves its next request
Finish(h) ==
    /\ pc[h] = "done"
    /\ pc' = [pc EXCEPT ![h] = "idle"]
    /\ req' = [req EXCEPT ![h] = NoReq]
    /\ res' = [res EXCEPT ![h] = NoRes]
    /\ UNCHANGED <<hosts, poolVars, guards, clock, served, tickLog, otherVars>>

-----------------------------------------------------------------------------
(* The maintenance task of main and State::tick *)

\* local_state.lock().await
MaintAcquire ==
    /\ pc[Maint] = "sleep"
    /\ CanLock
    /\ guards' = guards \cup {Maint}
    /\ pc' = [pc EXCEPT ![Maint] = "tick"]
    /\ UNCHANGED <<hosts, poolVars, req, res, clock, served, tickLog, otherVars>>

\* tick up to its loop
TickBegin ==
    /\ pc[Maint] = "tick"
    /\ next_update' = IF next_update < clock THEN clock + UpdateSecs ELSE next_update
    /\ new_portforwards' = <<>>
    /\ tickLog' = [pre |-> PoolIds(port_forwards), ok |-> {}, fresh |-> {}]
    /\ pc' = [pc EXCEPT ![Maint] = "loop"]
    /\ UNCHANGED <<hosts, port_forwards, child, guards, req, res, clock, served,
                   otherVars>>

\* one iteration: the last tunnel is removed, probed, and kept or closed
TickStep ==
    /\ pc[Maint] = "loop"
    /\ port_forwards # <<>>
    /\ ~ProbePanics(port_forwards[Len(port_forwards)])
    /\ LET pf == port_forwards[Len(port_forwards)]
       IN  \E probe2xx \in (IF pf.liveness = None THEN {FALSE} ELSE BOOLEAN) :
            /\ port_forwards' = SubSeq(port_forwards, 1, Len(port_forwards) - 1)
            /\ IF pf_tick(pf, probe2xx, clock)
               THEN /\ new_portforwards' = Append(new_portforwards, pf)
                    /\ child' = child
               ELSE /\ new_portforwards' = new_portforwards
                    /\ child' = close([child EXCEPT ![pf.id].evicted = TRUE], pf.id)
            /\ tickLog' = [tickLog EXCEPT
                             !.ok = IF probe2xx THEN @ \cup {pf.id} ELSE @,
                             !.fresh = IF pf.ttl > clock THEN @ \cup {pf.id} ELSE @]
            /\ served' = IF served.id = pf.id /\ ~probe2xx
                         THEN [served EXCEPT !.dead = TRUE] ELSE served
    /\ UNCHANGED <<hosts, next_update, guards, pc, req, res, clock, otherVars>>

\* after the loop: the kept tunnels become the pool
TickEnd ==
    /\ pc[Maint] = "loop"
    /\ port_forwards = <<>>
    /\ port_forwards' = new_portforwards
    /\ new_portforwards' = <<>>
    /\ pc' = [pc EXCEPT ![Maint] = "held"]
    /\ UNCHANGED <<hosts, next_update, child, guards, req, res, clock, served,
                   tickLog, otherVars>>

\* the statement ends, the guard is dropped; delay_for(10 s) follows
MaintRelease ==
    /\ pc[Maint] = "held"
    /\ guards' = DropGuard(Maint)
    /\ pc' = [pc EXCEPT ![Maint] = "sleep"]
    /\ tickLog' = NoLog
    /\ UNCHANGED <<hosts, poolVars, req, res, clock, served, otherVars>>

\* time passes
Advance ==
    /\ \E d \in Deltas :
        /\ clock + d <= MaxClock
        /\ clock' = clock + d
    /\ UNCHANGED <<hosts, poolVars, guards, pc, req, res, served, tickLog, otherVars>>

HandlerStep ==
    \E h \in Handlers :
        \/ Receive(h)
        \/ Acquire(h)
        \/ FetchAddress(h)
        \/ OpenComplete(h)
        \/ Release(h)
        \/ Dispatch(h)
        \/ Finish(h)

Next ==
    \/ HandlerStep
    \/ MaintAcquire
    \/ TickBegin
    \/ TickStep
    \/ TickEnd
    \/ MaintRelease
    \/ Advance

\* one connection and the maintenance task, with time passing
Spec == Init /\ [][Next]_vars

\* two concurrent requests on an empty pool, each connection serving one
\* request, with no maintenance pass in between
InitRace ==
    /\ hosts \in HostConfigs
    /\ PoolInit({"r1", "r2"})
    /\ FnIdle
    /\ BootDone
    /\ FileIdle
    /\ CloseIdle

NextRace ==
    \E h \in Handlers :
        \/ Receive(h)
        \/ Acquire(h)
        \/ FetchAddress(h)
        \/ OpenComplete(h)
        \/ Release(h)
        \/ Dispatch(h)

SpecRace == InitRace /\ [][NextRace]_vars

\* two connections and the maintenance task contending for the lock
InitTasks ==
    /\ hosts = HostsSingle
    /\ PoolInit({"r1", "r2"})
    /\ FnIdle
    /\ BootDone
    /\ FileIdle
    /\ CloseIdle

NextTasks ==
    \/ HandlerStep
    \/ MaintAcquire
    \/ TickBegin
    \/ TickStep
    \/ TickEnd
    \/ MaintRelease

SpecTasks == InitTasks /\ [][NextTasks]_vars

-----------------------------------------------------------------------------
(* The matching functions on their own: best_ingress on one descriptor,    *)
(* and the resolution of fetch_address on a descriptor list                *)

SeqsUpTo(S, n) == UNION {[1..k -> S] : k \in 0..n}

MatchHosts == {H_h, H_g, H_x}
MatchPaths == {P_root, P_a, P_ab, P_b}

App(ingresses) == Descriptor("app", ingresses, None, "dev-fss", "default")

\* the ingress lists of the descriptors that resolution is run on
ResolveLists == {<<I_root>>, <<I_a>>, <<I_ab, I_root>>, <<I_tls, I_a>>,
                 <<I_other>>, <<I_bad>>, <<>>}

BestInputs ==
    {[op |-> "best_ingress", descs |-> <<App(ing)>>, host |-> h, path |-> p] :
        ing \in SeqsUpTo(IngressPool, MaxIngresses), h \in MatchHosts, p \in MatchPaths}

ResolveInputs ==
    {[op |-> "resolve", descs |-> [k \in DOMAIN l |-> App(l[k])], host |-> h, path |-> p] :
        l \in SeqsUpTo(ResolveLists, MaxDescriptors), h \in MatchHosts, p \in MatchPaths}

InitMatch ==
    /\ fnIn \in BestInputs \cup ResolveInputs
    /\ fnOut = NoFnOut
    /\ hosts = <<>>
    /\ PoolInit({})
    /\ BootDone
    /\ FileIdle
    /\ CloseIdle

ApplyBestIngress ==
    /\ ~fnOut.done
    /\ fnIn.op = "best_ingress"
    /\ fnOut' = [done |-> TRUE,
                 ingress |-> best_ingress(fnIn.descs[1], fnIn.host, fnIn.path),
                 desc |-> 1]
    /\ UNCHANGED <<hosts, poolVars, guards, pc, req, res, clock, served, tickLog,
                   fnIn, disc, discOrder, boot, hosts_file, updates, closing>>

ApplyResolve ==
    /\ ~fnOut.done
    /\ fnIn.op = "resolve"
    /\ LET d == ResolveIdx(fnIn.descs, fnIn.host, fnIn.path)
       IN  fnOut' = [done |-> TRUE,
                     ingress |-> IF d = 0 THEN None
                                 ELSE best_ingress(fnIn.descs[d], fnIn.host, fnIn.path),
                     desc |-> d]
    /\ UNCHANGED <<hosts, poolVars, guards, pc, req, res, clock, served, tickLog,
                   fnIn, disc, discOrder, boot, hosts_file, updates, closing>>

NextMatch ==
    \/ ApplyBestIngress
    \/ ApplyResolve

SpecMatch == InitMatch /\ [][NextMatch]_vars

-----------------------------------------------------------------------------
(* Properties of the matching functions *)

\* length of the URI path of an ingress that parses
UriPathLen(ingress) == Len(UriFromStr(ingress).path)

\* the ingresses of the descriptor that best_ingress may choose among
Matching(desc, host, path) ==
    {i \in 1..Len(desc.ingresses) : IngressMatches(desc.ingresses[i], host, path)}

\* C1: best_ingress returns none iff no parseable ingress of the descriptor
\* has the request's host and a URI path that is a prefix of the request path;
\* otherwise it returns a matching ingress whose URI path is the longest
\* among the matching ones.
C1_LongestUriPath ==
    (fnOut.done /\ fnIn.op = "best_ingress") =>
        LET desc == fnIn.descs[1]
            M == Matching(desc, fnIn.host, fnIn.path)
        IN  /\ (fnOut.ingress = None) <=> (M = {})
            /\ fnOut.ingress # None =>
                 /\ \E i \in M : desc.ingresses[i] = fnOut.ingress
                 /\ \A j \in M : UriPathLen(desc.ingresses[j]) <= UriPathLen(fnOut.ingress)

\* C2: the pair fetch_address resolves is none iff no descriptor has a
\* best_ingress; otherwise its ingress is the best_ingress of its descriptor
\* and no descriptor's best_ingress is strictly longer.
C2_ResolveLongest ==
    (fnOut.done /\ fnIn.op = "resolve") =>
        LET best(k) == best_ingress(fnIn.descs[k], fnIn.host, fnIn.path)
            D == DOMAIN fnIn.descs
        IN  /\ (fnOut.desc = 0) <=> (\A k \in D : best(k) = None)
            /\ fnOut.desc # 0 =>
                 /\ fnOut.desc \in D
                 /\ fnOut.ingress = best(fnOut.desc)
                 /\ fnOut.ingress # None
                 /\ \A k \in D : best(k) # None => Len(best(k)) <= Len(fnOut.ingress)

\* resolution chose between two descriptors whose best ingresses differ in length
C2_Witness ==
    /\ fnOut.done
    /\ fnIn.op = "resolve"
    /\ fnOut.desc # 0
    /\ \E k \in DOMAIN fnIn.descs :
         LET b == best_ingress(fnIn.descs[k], fnIn.host, fnIn.path)
         IN  b # None /\ Len(b) < Len(fnOut.ingress)

-----------------------------------------------------------------------------
(* Properties of the pool *)

\* a call of fetch_address for the watched (host, path), before the deadline
\* the watched call set
SecondCall(h) ==
    /\ pc[h] = "fetch"
    /\ served # NoServed
    /\ req[h].host = served.host
    /\ req[h].path = served.path
    /\ clock < served.deadline

\* the watched tunnel is the only pool tunnel that has the ingress of h's request
OnlyHolder(h) ==
    \A k \in 1..Len(port_forwards) :
        contains_ingress(port_forwards[k], ResolvedIngress(req[h]))
            => port_forwards[k].id = served.id

C4_OneTunnelForBoth ==
    \A h1, h2 \in Handlers :
        (/\ h1 # h2
         /\ res[h1].kind = "pf"
         /\ res[h2].kind = "pf"
         /\ ResolvedIngress(req[h1]) = ResolvedIngress(req[h2]))
        => /\ res[h1].id = res[h2].id
           /\ res[h1].pf = res[h2].pf
           /\ Len(child) = 1

\* both requests were waiting for the lock together and both got the tunnel
C4_Witness ==
    \E h1, h2 \in Handlers :
        /\ h1 # h2
        /\ res[h1].kind = "pf" /\ res[h1].opened
        /\ res[h2].kind = "pf" /\ ~res[h2].opened
        /\ req[h1] = req[h2]
        /\ pc[h1] = "done" /\ pc[h2] = "done"

\* C5: when tick has completed, the pool holds exactly the tunnels it held
\* before whose probe was 2xx and whose ttl was later than the time of the
\* check; no tunnel is added.
C5_TickKeepsLiveOnly ==
    pc[Maint] = "held" =>
        /\ PoolIds(port_forwards) =
             {id \in tickLog.pre : id \in tickLog.ok /\ id \in tickLog.fresh}
        /\ Cardinality(PoolIds(port_forwards)) = Len(port_forwards)

\* a completed tick that kept one tunnel and removed another
C5_Witness ==
    /\ pc[Maint] = "held"
    /\ PoolIds(port_forwards) # {}
    /\ tickLog.pre \ PoolIds(port_forwards) # {}

IsTickStep ==
    /\ pc[Maint] = "loop"
    /\ Len(port_forwards') = Len(port_forwards) - 1

\* C7: a tunnel's ttl is 60 s after the last fetch_address that opened or
\* returned it, and a tunnel whose probe passes is evicted by tick iff at
\* least 60 s have passed since that call.
C7_TtlFromLastUse ==
    /\ [](\A k \in 1..Len(port_forwards) :
            port_forwards[k].ttl = child[port_forwards[k].id].used + TtlSecs)
    /\ [][IsTickStep =>
            LET pf == port_forwards[Len(port_forwards)]
                evictedNow == Len(new_portforwards') = Len(new_portforwards)
            IN  pf.id \in tickLog'.ok =>
                  (evictedNow <=> clock - child[pf.id].used >= TtlSecs)]_vars

\* a tick found a tunnel's probe passing exactly 60 s after its last use, and
\* evicted it
C7_Witness ==
    \E i \in 1..Len(child) :
        /\ pc[Maint] \in {"loop", "held"}
        /\ i \in tickLog.ok
        /\ child[i].evicted
        /\ clock - child[i].used = TtlSecs

\* C8: a handler holds the lock only while it is in fetch_address and not
\* when it dispatches; the maintenance task holds it only while it is in
\* tick and not when it sleeps; two tasks never hold it together.
C8_LockDiscipline ==
    /\ Cardinality(guards) <= 1
    /\ \A h \in Handlers : h \in guards <=> pc[h] \in {"fetch", "opening", "held"}
    /\ Maint \in guards <=> pc[Maint] \in {"tick", "loop", "held"}

\* one handler dispatches upstream while tick runs under the lock and the
\* other handler waits for the lock
C8_Witness ==
    \E h1, h2 \in Handlers :
        /\ pc[h1] = "dispatch"
        /\ pc[h2] = "lock"
        /\ pc[Maint] = "loop"
        /\ guards = {Maint}

\* C9: the upstream dispatch of a request that fetch_address gave a
\* Portforward reaches the live subprocess of that tunnel, also when a tick
\* evicted the tunnel after fetch_address returned.
C9_DispatchReachesTunnel ==
    \A h \in Handlers :
        (pc[h] = "done" /\ res[h].kind = "pf") =>
            /\ res[h].status = "upstream"
            /\ res[h].reached = res[h].id

-----------------------------------------------------------------------------
(* Startup: main, State::new and State::fetch_descriptors *)

\* the contexts and namespaces main passes to State::new
Contexts == <<"dev-fss", "prod-fss">>
Namespaces == <<"default", "tbd">>

\* the (context, namespace) pairs in the order State::new creates the calls:
\* contexts outer, namespaces inner
NPairs == Len(Contexts) * Len(Namespaces)
PairContext(i) == Contexts[((i - 1) \div Len(Namespaces)) + 1]
PairNamespace(i) == Namespaces[((i - 1) % Len(Namespaces)) + 1]

\* spec.ingresses absent from an item
Absent == <<None>>

Item(name, ingresses, liveness) ==
    [name |-> name, ingresses |-> ingresses, liveness |-> liveness]

\* the item lists kubectl get application may print
ItemLists ==
    { <<>>,
      << Item("svc", <<I_root>>, L_alive) >>,
      << Item("bare", Absent, None),
         Item("a", <<I_a, I_root>>, None),
         Item("hollow", <<>>, L_alive) >> }

\* what one run of kubectl get application can come to
Outcomes ==
    {[state |-> st, items |-> <<>>] : st \in {"ioerr", "exit", "badjson"}}
        \cup {[state |-> "ok", items |-> l] : l \in ItemLists}

Pending == [state |-> "pending", items |-> <<>>]

\* ApplicationDescriptor::create
create(resource, context, namespace) ==
    Descriptor(resource.name, resource.ingresses, resource.liveness,
               context, namespace)

RECURSIVE MapItems(_, _, _)
\* the filter and map of fetch_descriptors over the parsed items
MapItems(items, context, namespace) ==
    IF items = <<>> THEN <<>>
    ELSE LET rest == MapItems(Tail(items), context, namespace)
         IN  IF Head(items).ingresses # Absent
             THEN <<create(Head(items), context, namespace)>> \o rest
             ELSE rest

\* the Result of fetch_descriptors: Err when kubectl cannot be run or exits
\* non-zero (bad JSON panics and gives no Result)
fetch_descriptors(out, context, namespace) ==
    IF out.state = "ok"
    THEN [ok |-> TRUE, descs |-> MapItems(out.items, context, namespace)]
    ELSE [ok |-> FALSE, descs |-> <<>>]

RECURSIVE CollectAsCompleted(_, _)
\* a plausible slip: the results are taken as the calls complete
\* (FuturesUnordered in the place of FuturesOrdered)
CollectAsCompleted(results, i) ==
    IF i > Len(discOrder) THEN <<>>
    ELSE LET j == discOrder[i]
             r == fetch_descriptors(results[j], PairContext(j), PairNamespace(j))
         IN  (IF r.ok THEN r.descs ELSE <<>>) \o CollectAsCompleted(results, i + 1)

RECURSIVE Collect(_, _)
\* the two flatten calls of State::new over the Results, in the order of the
\* calls: an Err yields nothing
Collect(results, i) ==
    IF i > Len(results) THEN <<>>
    ELSE LET r == fetch_descriptors(results[i], PairContext(i), PairNamespace(i))
         IN  (IF r.ok THEN r.descs ELSE <<>>) \o Collect(results, i + 1)

InitStartup ==
    /\ disc = [i \in 1..NPairs |-> Pending]
    /\ discOrder = <<>>
    /\ boot = "discovering"
    /\ hosts = <<>>
    /\ PoolInit({})
    /\ FnIdle
    /\ FileIdle
    /\ CloseIdle

startVars == <<poolVars, guards, pc, req, res, clock, served, tickLog, fnIn, fnOut,
               hosts_file, updates, closing>>

\* one kubectl get application ends; unparseable JSON panics in main
DiscoveryReturns ==
    /\ boot = "discovering"
    /\ \E i \in 1..NPairs, out \in Outcomes :
        /\ disc[i] = Pending
        /\ disc' = [disc EXCEPT ![i] = out]
        /\ discOrder' = Append(discOrder, i)
        /\ boot' = IF out.state = "badjson" THEN "panicked" ELSE boot
    /\ UNCHANGED <<hosts, startVars>>

\* all calls have ended: State::new returns Ok(State)
StateNew ==
    /\ boot = "discovering"
    /\ \A i \in 1..NPairs : disc[i] # Pending
    /\ hosts' = Collect(disc, 1)
    /\ boot' = "constructed"
    /\ UNCHANGED <<disc, discOrder, startVars>>

\* main goes on to spawn the maintenance task and serve
MainServes ==
    /\ boot = "constructed"
    /\ boot' = "serving"
    /\ UNCHANGED <<hosts, disc, discOrder, startVars>>

NextStartup ==
    \/ DiscoveryReturns
    \/ StateNew
    \/ MainServes

SpecStartup == InitStartup /\ [][NextStartup]_vars

\* C10: if the discovery CLI exits non-zero for any pair, State construction
\* fails: no State is produced and the process does not start to serve.
C10_DiscoveryFailureFatal ==
    (\E i \in 1..NPairs : disc[i].state = "exit") =>
        boot \notin {"constructed", "serving"}

\* the discovery call a descriptor came from
PairOf(d) ==
    CHOOSE i \in 1..NPairs :
        PairContext(i) = d.context /\ PairNamespace(i) = d.namespace

\* the names of a sequence of items or descriptors, in order
ItemNames(items) == [k \in DOMAIN items |-> items[k].name]
DescNames(descs) == [k \in DOMAIN descs |-> descs[k].application_name]

\* position of call i in the completion order
CompletedAt(i) == CHOOSE k \in 1..Len(discOrder) : discOrder[k] = i

\* C11: whatever order the discovery calls complete in, the stored list is
\* ordered by (context, namespace) pair in nested argument order, and the
\* descriptors of each pair are those of its JSON items that have ingresses,
\* in the order of the items.
C11_NestedOrder ==
    boot \in {"constructed", "serving"} =>
        /\ \A k, l \in DOMAIN hosts : k < l => PairOf(hosts[k]) <= PairOf(hosts[l])
        /\ \A i \in 1..NPairs :
             LET FromPair(d) == PairOf(d) = i
                 Present(it) == it.ingresses # Absent
             IN  DescNames(SelectSeq(hosts, FromPair))
                    = ItemNames(SelectSeq(disc[i].items, Present))

\* the State holds descriptors of two calls, in the order opposite to that in
\* which the calls completed, one of them with several items
C11_Witness ==
    /\ boot = "constructed"
    /\ \E k, l \in DOMAIN hosts :
         /\ k < l
         /\ PairOf(hosts[k]) < PairOf(hosts[l])
         /\ CompletedAt(PairOf(hosts[k])) > CompletedAt(PairOf(hosts[l]))
    /\ \E k \in DOMAIN hosts : hosts[k].application_name = "hollow"


-----------------------------------------------------------------------------
(* Properties of the request handler *)

\* fetch_address failed to open the tunnel for h's request
OpenFailed(h) == res[h].kind \in {"err", "panic"}

\* C12: when opening the tunnel fails (spawn fails, no first line, or a first
\* line that does not match), the handler replies 502 Bad Gateway and the pool
\* is as it was before the request.
C12_OpenFailureIs502 ==
    /\ [](\A h \in Handlers : (pc[h] = "done" /\ OpenFailed(h)) => res[h].status = "502")
    /\ [][\A h \in Handlers :
            (pc[h] \in {"fetch", "opening"} /\ pc'[h] = "held" /\ OpenFailed(h)')
                => port_forwards' = port_forwards]_vars

\* the step is handle_req returning at once on a request without a Host header
IsNoHostReply(h) == pc[h] = "idle" /\ pc'[h] = "done"

\* C13: a request without a Host header is answered 400 without acquiring
\* the lock or calling fetch_address: no subprocess is spawned, no ttl is
\* refreshed and the pool is unchanged.
C13_NoHostIs400 ==
    /\ [](\A h \in Handlers :
            (pc[h] = "done" /\ req[h] = NoReq) =>
                /\ res[h].status = "400"
                /\ res[h].kind = "unset"
                /\ h \notin guards)
    /\ [][\A h \in Handlers :
            IsNoHostReply(h) =>
                /\ req'[h] = NoReq
                /\ guards' = guards
                /\ port_forwards' = port_forwards
                /\ child' = child]_vars

\* a request without a Host header was answered while a tunnel is in the pool
\* and the maintenance task holds the lock
C13_Witness ==
    \E h \in Handlers :
        /\ pc[h] = "done"
        /\ res[h].status = "400"
        /\ port_forwards # <<>>
        /\ Maint \in guards

\* h is in fetch_address with a request that no descriptor matches
Unmatched(h) == pc[h] = "fetch" /\ ResolvedIngress(req[h]) = None

\* C14: when no descriptor matches the request's (host, path), fetch_address
\* returns none and the handler replies 404; no subprocess is spawned, no
\* tunnel's ttl is refreshed and the pool is unchanged.
C14_NoMatchIs404 ==
    /\ [](\A h \in Handlers :
            (pc[h] = "done" /\ res[h].kind = "notfound") => res[h].status = "404")
    /\ [][\A h \in Handlers :
            (Unmatched(h) /\ pc'[h] # pc[h]) =>
                /\ res'[h].kind = "notfound"
                /\ port_forwards' = port_forwards
                /\ child' = child]_vars

\* a request for a host no descriptor has was answered 404 while a tunnel is
\* in the pool
C14_Witness ==
    \E h \in Handlers :
        /\ pc[h] = "done"
        /\ req[h].host = H_x
        /\ res[h].status = "404"
        /\ port_forwards # <<>>

-----------------------------------------------------------------------------
(* The hosts file: src/src/hosts.rs *)

\* b"### START AUTOFORWARD" and b"### END AUTOFORWARD"
HEADER ==
    <<"#","#","#"," ","S","T","A","R","T"," ","A","U","T","O","F","O","R","W","A","R","D">>
FOOTER ==
    <<"#","#","#"," ","E","N","D"," ","A","U","T","O","F","O","R","W","A","R","D">>
\* unix
LINE_SEPARATOR == <<"\n">>
\* b"127.0.0.1"
LoopbackBytes == <<"1","2","7",".","0",".","0",".","1">>

\* input.windows(pat.len()).position(|v| v == pat): the index of the first
\* occurrence of pat in input, counted from 1; 0 for None
Position(input, pat) ==
    LET Hits == {i \in 1..(Len(input) - Len(pat) + 1) :
                    SubSeq(input, i, i + Len(pat) - 1) = pat}
    IN  IF Hits = {} THEN 0 ELSE CHOOSE i \in Hits : \A j \in Hits : i <= j

\* the header branch: what precedes the header, the block, and what follows
\* the footer found
Splice(input, start, end, replacement) ==
    SubSeq(input, 1, start - 1) \o HEADER \o LINE_SEPARATOR \o replacement
        \o FOOTER \o SubSeq(input, end + Len(FOOTER), Len(input))

\* the branch without a header: the block is appended
AppendBlock(input, replacement) ==
    input \o LINE_SEPARATOR \o HEADER \o LINE_SEPARATOR \o replacement
        \o FOOTER \o LINE_SEPARATOR

\* insert_or_replace_entries: the footer is searched from the start of the
\* input; a header in an input without any footer panics (expect)
insert_or_replace_entries(input, replacement) ==
    LET start == Position(input, HEADER)
        end   == Position(input, FOOTER)
    IN  IF start # 0
        THEN IF end = 0
             THEN [ok |-> FALSE, bytes |-> <<>>]
             ELSE [ok |-> TRUE, bytes |-> Splice(input, start, end, replacement)]
        ELSE [ok |-> TRUE, bytes |-> AppendBlock(input, replacement)]

RECURSIVE generate_host_entries(_)
\* one "127.0.0.1 <host>" line per host, in order
generate_host_entries(hs) ==
    IF hs = <<>> THEN <<>>
    ELSE LoopbackBytes \o <<" ">> \o Head(hs) \o LINE_SEPARATOR
            \o generate_host_entries(Tail(hs))

\* chunks per initial file content, and applications of update_hosts_file
MaxChunks == 4
MaxUpdates == 3

\* what initial file contents are made of
Chunks == {HEADER, FOOTER, LINE_SEPARATOR, <<"x">>, <<"#">>}

RECURSIVE Flatten(_)
Flatten(ss) == IF ss = <<>> THEN <<>> ELSE Head(ss) \o Flatten(Tail(ss))

FileContents == {Flatten(cs) : cs \in SeqsUpTo(Chunks, MaxChunks)}

\* the host lists hostnames() may give
HostLists == {<<>>, <<H_h>>, <<H_g, H_h>>}

InitHosts ==
    /\ \E input \in FileContents, hs \in HostLists :
        /\ fnIn = [op |-> "update_hosts_file", input |-> input, hosts |-> hs]
        /\ hosts_file = input
    /\ updates = <<>>
    /\ fnOut = NoFnOut
    /\ hosts = <<>>
    /\ PoolInit({})
    /\ BootDone
    /\ CloseIdle

\* update_hosts_file: the file is read, truncated on open, and the result of
\* insert_or_replace_entries is written; a panic leaves the file truncated
update_hosts_file ==
    /\ Len(updates) < MaxUpdates
    /\ \A k \in 1..Len(updates) : updates[k].ok
    /\ LET result == insert_or_replace_entries(hosts_file,
                                               generate_host_entries(fnIn.hosts))
       IN  /\ hosts_file' = result.bytes
           /\ updates' = Append(updates, [ok |-> result.ok, bytes |-> result.bytes])
    /\ UNCHANGED <<hosts, poolVars, guards, pc, req, res, clock, served, tickLog,
                   fnIn, fnOut, disc, discOrder, boot, closing>>

NextHosts == update_hosts_file

SpecHosts == InitHosts /\ [][NextHosts]_vars

\* C15: applying update_hosts_file(path, H) twice or three times leaves the
\* file byte-identical to applying it once, for every initial content, also
\* with no markers and with a footer marker before the header marker.
C15_UpdateIdempotent ==
    \A k \in 2..Len(updates) :
        /\ updates[k].ok
        /\ updates[k].bytes = updates[1].bytes

\* index of the first footer marker that follows the header marker at start,
\* 0 if none
FooterAfter(input, start) ==
    LET Hits == {i \in (start + Len(HEADER))..(Len(input) - Len(FOOTER) + 1) :
                    SubSeq(input, i, i + Len(FOOTER) - 1) = FOOTER}
    IN  IF Hits = {} THEN 0 ELSE CHOOSE i \in Hits : \A j \in Hits : i <= j

\* C16: with the START and END markers in the input, the output is the bytes
\* before START, the marker block with one "127.0.0.1 <hostname>" line per
\* host, and the bytes after END, all else as in the input; with no START
\* marker, it is the whole input, a line separator, the START line, the
\* entries and the END line.
C16_OutsideMarkersKept ==
    Len(updates) >= 1 =>
        LET input   == fnIn.input
            entries == generate_host_entries(fnIn.hosts)
            start   == Position(input, HEADER)
            end     == FooterAfter(input, start)
            block   == HEADER \o LINE_SEPARATOR \o entries \o FOOTER
        IN  /\ (start # 0 /\ end # 0) =>
                 /\ updates[1].ok
                 /\ updates[1].bytes =
                      SubSeq(input, 1, start - 1) \o block
                          \o SubSeq(input, end + Len(FOOTER), Len(input))
            /\ start = 0 =>
                 /\ updates[1].ok
                 /\ updates[1].bytes =
                      input \o LINE_SEPARATOR \o block \o LINE_SEPARATOR

-----------------------------------------------------------------------------
(* PortforwardDescriptor::close and kill, step by step                     *)

\* Duration::from_secs(3) of the timeout in kill
KillTimeoutSecs == 3
\* seconds followed after the SIGINT
MaxWait == 5

Event(e) == [e |-> e, at |-> closing.elapsed]

\* close is called on a tunnel whose subprocess runs, or has exited already
\* and was not waited for
InitClose ==
    /\ \E exited \in BOOLEAN, drained \in BOOLEAN :
        /\ drained => exited
        /\ closing = [phase |-> "called", elapsed |-> 0, exited |-> exited,
                      drained |-> drained,
                      events |-> (IF exited THEN <<[e |-> "exit", at |-> 0]>> ELSE <<>>)
                                 \o (IF drained THEN <<[e |-> "drain", at |-> 0]>> ELSE <<>>)]
    /\ hosts = <<>>
    /\ PoolInit({})
    /\ FnIdle
    /\ BootDone
    /\ FileIdle

closeVars == <<hosts, poolVars, guards, pc, req, res, clock, served, tickLog,
               fnIn, fnOut, disc, discOrder, boot, hosts_file, updates>>

\* kill: signal::kill(pid, SIGINT), then the wait under the timeout starts
SendSigint ==
    /\ closing.phase = "called"
    /\ closing' = [closing EXCEPT !.phase = "waiting",
                                  !.events = Append(@, Event("SIGINT"))]
    /\ UNCHANGED closeVars

\* a plausible slip: SIGKILL follows SIGINT without the wait
TimedOutAtOnce(c) == ~c.exited

\* the timeout of the wait elapses: the child has not exited when the timer
\* fires
TimedOut(c) == c.elapsed >= KillTimeoutSecs /\ ~c.exited

\* timeout(..) returned Err: signal::kill(pid, SIGKILL), then output.await
SendSigkill ==
    /\ closing.phase = "waiting"
    /\ TimedOut(closing)
    /\ closing' = [closing EXCEPT !.phase = "killed",
                                  !.events = Append(@, Event("SIGKILL"))]
    /\ UNCHANGED closeVars

\* the subprocess exits, on a signal or by itself
ChildExits ==
    /\ closing.phase \in {"called", "waiting", "killed"}
    /\ ~closing.exited
    /\ closing' = [closing EXCEPT !.exited = TRUE,
                                  !.events = Append(@, Event("exit"))]
    /\ UNCHANGED closeVars

\* wait_with_output completes, under the timeout or after the SIGKILL:
\* kill returns and close awaits the drain task
WaitCompletes ==
    /\ closing.phase \in {"waiting", "killed"}
    /\ closing.exited
    /\ closing' = [closing EXCEPT !.phase = "reaped",
                                  !.events = Append(@, Event("reap"))]
    /\ UNCHANGED closeVars

\* the task that reads the subprocess's stdout sees its end
DrainEnds ==
    /\ closing.phase # "none"
    /\ closing.exited
    /\ ~closing.drained
    /\ closing' = [closing EXCEPT !.drained = TRUE,
                                  !.events = Append(@, Event("drain"))]
    /\ UNCHANGED closeVars

\* self.stdout.await completes: close returns
CloseReturns ==
    /\ closing.phase = "reaped"
    /\ closing.drained
    /\ closing' = [closing EXCEPT !.phase = "returned",
                                  !.events = Append(@, Event("return"))]
    /\ UNCHANGED closeVars

\* a second passes; the timer of the timeout fires at its deadline
PassTime ==
    /\ closing.phase \in {"waiting", "killed", "reaped"}
    /\ closing.elapsed < MaxWait
    /\ ~(closing.phase = "waiting" /\ TimedOut(closing))
    /\ closing' = [closing EXCEPT !.elapsed = @ + 1]
    /\ UNCHANGED closeVars

NextClose ==
    \/ SendSigint
    \/ SendSigkill
    \/ ChildExits
    \/ WaitCompletes
    \/ DrainEnds
    \/ CloseReturns
    \/ PassTime

SpecClose == InitClose /\ [][NextClose]_vars

\* positions in the history of close at which event e is recorded
Happened(e) == {k \in 1..Len(closing.events) : closing.events[k].e = e}
\* every e is recorded before every f
Before(e, f) == \A k \in Happened(e), l \in Happened(f) : k < l

\* C17: close sends SIGINT first; a child that exits within 3 s of the SIGINT
\* is never sent SIGKILL; a child that has not exited after 3 s is sent
\* SIGKILL and then waited for; close returns only after the child has been
\* reaped and the stdout-drain task has completed.
C17_GracefulThenKill ==
    /\ Happened("SIGKILL") # {} => (Happened("SIGINT") # {} /\ Before("SIGINT", "SIGKILL"))
    /\ Cardinality(Happened("SIGINT")) <= 1
    /\ Cardinality(Happened("SIGKILL")) <= 1
    /\ \A k \in Happened("exit") :
         closing.events[k].at < KillTimeoutSecs => Happened("SIGKILL") = {}
    /\ \A k \in Happened("SIGKILL") :
         /\ closing.events[k].at = KillTimeoutSecs
         /\ Before("SIGKILL", "exit")
    /\ (closing.elapsed > KillTimeoutSecs /\ Happened("SIGKILL") = {})
            => \E k \in Happened("exit") : closing.events[k].at <= KillTimeoutSecs
    /\ Happened("reap") # {} => closing.exited
    /\ Happened("return") # {} =>
         /\ Happened("SIGINT") # {}
         /\ Happened("reap") # {} /\ Before("reap", "return")
         /\ closing.drained /\ Before("drain", "return")

\* close has returned after a SIGKILL at 3 s, the drain task ending after the
\* child was reaped
C17_Witness ==
    /\ closing.phase = "returned"
    /\ Happened("SIGKILL") # {}
    /\ Happened("drain") # {} /\ Before("reap", "drain")

-----------------------------------------------------------------------------
(* Properties of the lock, of discovery and of the subprocesses *)

\* the step is an iteration of tick's loop that sends the liveness probe of
\* the tunnel it removed
IsProbeStep ==
    /\ IsTickStep
    /\ port_forwards[Len(port_forwards)].liveness # None

\* C18: the State lock is never held across network I/O: no task sends a
\* liveness probe or dispatches upstream while it holds the lock, so a probe
\* cannot keep a request handler waiting for fetch_address.
C18_NoNetworkUnderLock ==
    /\ [](\A h \in Handlers : pc[h] = "dispatch" => h \notin guards)
    /\ [][IsProbeStep => Maint \notin guards]_vars

\* C19: discovery drops every item whose spec.ingresses is absent or an empty
\* list: every descriptor of the State has a non-empty ingress sequence, and
\* each pair gives one descriptor for each of its remaining items.
C19_NoEmptyIngresses ==
    boot \in {"constructed", "serving"} =>
        /\ \A k \in DOMAIN hosts : hosts[k].ingresses # <<>>
        /\ \A i \in 1..NPairs :
             LET FromPair(d) == PairOf(d) = i
                 Remaining(it) == it.ingresses # Absent /\ it.ingresses # <<>>
             IN  DescNames(SelectSeq(hosts, FromPair))
                    = ItemNames(SelectSeq(disc[i].items, Remaining))

\* the subprocesses a tunnel owns: those of the pool (tick's local vector
\* included) and those whose first line from_app still awaits
Owned ==
    PoolIds(port_forwards) \cup PoolIds(new_portforwards)
        \cup {res[h].id : h \in {t \in Handlers : pc[t] = "opening"}}

\* C20: no port-forward subprocess is leaked: every live subprocess is owned
\* by a tunnel of the pool or by one tick is closing; when the first stdout
\* line cannot be read or does not match, the spawned child is terminated
\* before the failure is propagated.
C20_NoLeakedSubprocess ==
    \A i \in 1..Len(child) : child[i].state = "running" => i \in Owned

-----------------------------------------------------------------------------
(* The maintenance task when tick panics *)

\* an application whose liveness path has a space, and one that is in order
HostsOdd ==
    << Descriptor("odd", <<I_a>>, L_bad, "dev-fss", "default"),
       Descriptor("svc", <<I_root>>, L_alive, "dev-fss", "tbd") >>

InitMaint ==
    /\ hosts = HostsOdd
    /\ PoolInit({"r1"})
    /\ FnIdle
    /\ BootDone
    /\ FileIdle
    /\ CloseIdle

\* tick panics in check_selftest on the tunnel it has just removed: the task
\* of the maintenance loop ends; the guard is dropped by the unwinding, and
\* so are the removed tunnel and tick's local vector, without a close
TickPanics ==
    /\ pc[Maint] = "loop"
    /\ port_forwards # <<>>
    /\ ProbePanics(port_forwards[Len(port_forwards)])
    /\ port_forwards' = SubSeq(port_forwards, 1, Len(port_forwards) - 1)
    /\ new_portforwards' = <<>>
    /\ guards' = DropGuard(Maint)
    /\ pc' = [pc EXCEPT ![Maint] = "panicked"]
    /\ UNCHANGED <<hosts, next_update, child, req, res, clock, served, tickLog,
                   otherVars>>

\* the steps of the maintenance task once it has the lock
TickRuns == TickBegin \/ TickStep \/ TickPanics \/ TickEnd \/ MaintRelease

NextMaint ==
    \/ HandlerStep
    \/ MaintAcquire
    \/ TickBegin
    \/ TickStep
    \/ TickPanics
    \/ TickEnd
    \/ MaintRelease
    \/ Advance

\* one connection and the maintenance task under fair scheduling: the mutex
\* is fair, so the maintenance task gets the lock when it is free again and
\* again, and a tick that runs goes on
SpecMaint ==
    /\ InitMaint
    /\ [][NextMaint]_vars
    /\ SF_vars(MaintAcquire)
    /\ WF_vars(TickRuns)

\* tunnel i is in the pool with its ttl passed
Expired(i) ==
    \E k \in 1..Len(port_forwards) :
        port_forwards[k].id = i /\ port_forwards[k].ttl <= clock

\* the subprocesses of tunnels that were opened and not closed
OpenTunnels == {i \in 1..Len(child) : child[i].state = "running" /\ child[i].port # 0}

\* no request handler keeps the lock forever
HandlersUnlock == []<>(guards \subseteq {Maint})

\* C21: under fair scheduling the maintenance task calls tick() again and
\* again forever, a tunnel whose ttl has passed is eventually out of the pool
\* (or refreshed) and closed, and a failure on one tunnel neither stops later
\* ticks nor drops, unclosed, the other tunnels of the same tick.
C21_TicksForever ==
    /\ HandlersUnlock => []<>(pc[Maint] = "tick")
    /\ HandlersUnlock => \A i \in 1..MaxSpawn : Expired(i) ~> ~Expired(i)
    /\ [](OpenTunnels \subseteq PoolIds(port_forwards) \cup PoolIds(new_portforwards))

-----------------------------------------------------------------------------
(* Properties of the tunnels and the descriptors they were opened from *)

\* the tunnels of the pool, those tick has moved to its local vector included
AllTunnels == port_forwards \o new_portforwards

\* the descriptor a tunnel was opened from (its index in State.hosts)
OpenedFrom(pf) == child[pf.id].desc

\* C22: the pool holds at most one tunnel opened from any given descriptor:
\* fetch_address opens a tunnel for the winning descriptor only when no pool
\* tunnel's snapshot contains the winning ingress, and a tunnel's snapshot
\* holds all the ingresses of the descriptor it was opened from.
C22_OneTunnelPerDescriptor ==
    /\ [](\A k, l \in 1..Len(AllTunnels) :
            k # l => OpenedFrom(AllTunnels[k]) # OpenedFrom(AllTunnels[l]))
    /\ [](\A k \in 1..Len(AllTunnels) :
            /\ OpenedFrom(AllTunnels[k]) \in DOMAIN hosts
            /\ AllTunnels[k].hosts = hosts[OpenedFrom(AllTunnels[k])].ingresses)
    /\ [][\A h \in Handlers :
            (pc[h] = "fetch" /\ pc'[h] = "opening") =>
                \A k \in 1..Len(port_forwards) :
                    ~contains_ingress(port_forwards[k], ResolvedIngress(req[h]))]_vars

\* tunnels of two descriptors that share an ingress are in the pool, and a
\* request was served from the pool without an open
C22_Witness ==
    /\ Len(port_forwards) = 2
    /\ \E i \in 1..Len(hosts[OpenedFrom(port_forwards[1])].ingresses) :
         contains_ingress(port_forwards[2],
                          hosts[OpenedFrom(port_forwards[1])].ingresses[i])
    /\ \E h \in Handlers :
         pc[h] = "held" /\ res[h].kind = "pf" /\ ~res[h].opened

\* C23: the Portforward fetch_address returns belongs to a tunnel that was
\* opened from the descriptor resolution selected for the request, also when
\* another descriptor declares the same ingress string and its tunnel is in
\* the pool, and whatever the order tick has left the pool in.
C23_TunnelOfResolvedDescriptor ==
    \A h \in Handlers :
        (pc[h] = "held" /\ res[h].kind = "pf") =>
            child[res[h].id].desc = ResolveIdx(hosts, req[h].host, req[h].path)

====
